---- MODULE Spec2Model ----
(***************************************************************************)
(* Model of call_tool in main.py of k8s-mcp-server: the four operations    *)
(* kubectl_apply, kubectl_get, kubectl_describe and kubectl_delete, the    *)
(* argument bag they read, the YAML decoder and the Kubernetes client they *)
(* call, and the text result they return.                                  *)
(*                                                                         *)
(* Strings on which the code calls str.lower() (resource_type, the         *)
(* manifest's kind) are sequences of one-character strings, so that        *)
(* lower-casing is computed.  Other strings (names, namespaces, literal    *)
(* message pieces) are TLA+ strings.  A formatted text (an f-string) is    *)
(* the sequence of its pieces.                                             *)
(***************************************************************************)
EXTENDS Integers, Sequences, FiniteSets, TLC

\* ------------------------------------------------------------------------
\* Bounds of the model
\* ------------------------------------------------------------------------
\* longest resource_type token built freely from TokenAlphabet
MaxTokenLen == 2
\* most documents in one manifest text
MaxDocs == 2
\* most objects a list call returns
MaxItems == 2
\* most container statuses of one pod
MaxContainers == 2

\* ------------------------------------------------------------------------
\* Characters and str.lower()
\* ------------------------------------------------------------------------
UpperCase == <<"A","B","C","D","E","F","G","H","I","J","K","L","M",
               "N","O","P","Q","R","S","T","U","V","W","X","Y","Z">>
LowerCase == <<"a","b","c","d","e","f","g","h","i","j","k","l","m",
               "n","o","p","q","r","s","t","u","v","w","x","y","z">>

\* str.lower() on one character: an upper-case letter maps to its lower-case
\* letter, any other character to itself
LowerChar(c) ==
  IF \E i \in 1..26 : UpperCase[i] = c
  THEN LowerCase[CHOOSE i \in 1..26 : UpperCase[i] = c]
  ELSE c

\* the inverse, used only to build upper-case inputs
UpperChar(c) ==
  IF \E i \in 1..26 : LowerCase[i] = c
  THEN UpperCase[CHOOSE i \in 1..26 : LowerCase[i] = c]
  ELSE c

\* str.lower() (main.py:159, 290, 396)
Lower(s) == [i \in 1..Len(s) |-> LowerChar(s[i])]

Upper(s) == [i \in 1..Len(s) |-> UpperChar(s[i])]
Capitalize(s) == [i \in 1..Len(s) |-> IF i = 1 THEN UpperChar(s[i]) ELSE s[i]]

\* ------------------------------------------------------------------------
\* Formatted text: a sequence of pieces.  L is a literal piece or a plain
\* string value, T a piece holding a character sequence.
\* ------------------------------------------------------------------------
L(str) == [lit |-> str, tok |-> <<>>]
T(chars) == [lit |-> "", tok |-> chars]

\* ------------------------------------------------------------------------
\* Python values.  t is the type tag; "absent" is a key missing from a dict.
\* s carries the payload of a str, n that of an int.
\* ------------------------------------------------------------------------
PyAbsent(d) == [t |-> "absent", n |-> 0, s |-> d]
PyNone(d) == [t |-> "none", n |-> 0, s |-> d]
PyInt(k, d) == [t |-> "int", n |-> k, s |-> d]
PyStr(x) == [t |-> "str", n |-> 0, s |-> x]

\* a mutant of Truthy: "if v is not None", so the empty string counts
TruthyNotNone(v, empty) == v.t \in {"str", "int"}

\* Python truth value of v ("if v:"), empty being the empty str payload:
\* None, 0 and the empty string are false
Truthy(v, empty) ==
  \/ v.t = "str" /\ v.s # empty
  \/ v.t = "int" /\ v.n # 0

\* dict.get(key): None when the key is missing
Get(v) == IF v.t = "absent" THEN PyNone(v.s) ELSE v
\* dict.get(key, default)
GetDefault(v, default) == IF v.t = "absent" THEN default ELSE v

\* str(v) as an f-string renders it, for a value whose str payload is a
\* plain string
FmtStr(v) ==
  CASE v.t = "str" -> L(v.s)
    [] v.t = "int" -> L(ToString(v.n))
    [] OTHER -> L("None")

\* the same for a value whose str payload is a character sequence
FmtChars(v) ==
  CASE v.t = "str" -> T(v.s)
    [] v.t = "int" -> L(ToString(v.n))
    [] OTHER -> L("None")

\* ------------------------------------------------------------------------
\* Outcome of a step that may raise: ok with a value v, or an exception
\* whose str() is exc.
\* ------------------------------------------------------------------------
Ok(v) == [ok |-> TRUE, v |-> v, exc |-> ""]
Raise(d, msg) == [ok |-> FALSE, v |-> d, exc |-> msg]

\* ------------------------------------------------------------------------
\* Manifest text and the PyYAML decoder.  A text is modelled by what the
\* decoder makes of it: whether it is the empty string, whether it scans and
\* parses, and the documents it holds.  A document is null (an empty
\* document), a scalar, the empty mapping, or a non-empty mapping with the
\* keys the code reads.
\* ------------------------------------------------------------------------
NoName == PyAbsent("")
NoKind == PyAbsent(<<>>)
NoMeta == [t |-> "absent", name |-> NoName, namespace |-> NoName]

NullDoc == [t |-> "null", kind |-> NoKind, metadata |-> NoMeta]
ScalarDoc == [t |-> "scalar", kind |-> NoKind, metadata |-> NoMeta]
\* the mapping {}
EmptyMapDoc == [t |-> "emptymap", kind |-> NoKind, metadata |-> NoMeta]
MapDoc(kind, metadata) == [t |-> "map", kind |-> kind, metadata |-> metadata]

\* metadata: a mapping with optional name and namespace
MetaMap(name, namespace) == [t |-> "map", name |-> name, namespace |-> namespace]
\* metadata: null, or a scalar instead of a mapping
MetaNone == [t |-> "none", name |-> NoName, namespace |-> NoName]
MetaScalar == [t |-> "scalar", name |-> NoName, namespace |-> NoName]

EmptyText == [nonempty |-> FALSE, wellformed |-> TRUE, docs |-> <<>>]
\* a text of comments only: not empty, no document
CommentText == [nonempty |-> TRUE, wellformed |-> TRUE, docs |-> <<>>]
\* a text the scanner or parser rejects
BadText == [nonempty |-> TRUE, wellformed |-> FALSE, docs |-> <<>>]
DocsText(docs) == [nonempty |-> TRUE, wellformed |-> TRUE, docs |-> docs]

\* yaml.safe_load (main.py:387): the single document of the stream, None
\* for a stream with no document, an error for one with several
safe_load(yaml_content) ==
  CASE yaml_content.t # "str" -> Raise(NullDoc, "'int' object has no attribute 'read'")
    [] ~yaml_content.s.wellformed -> Raise(NullDoc, "YAMLError")
    [] yaml_content.s.docs = <<>> -> Ok(NullDoc)
    [] Len(yaml_content.s.docs) = 1 -> Ok(yaml_content.s.docs[1])
    [] OTHER -> Raise(NullDoc, "expected a single document in the stream")

\* list(yaml.safe_load_all(...)) (main.py:136): every document, in order
safe_load_all(yaml_content) ==
  CASE yaml_content.t # "str" -> Raise(<<>>, "'int' object has no attribute 'read'")
    [] ~yaml_content.s.wellformed -> Raise(<<>>, "YAMLError")
    [] OTHER -> Ok(yaml_content.s.docs)

\* ------------------------------------------------------------------------
\* Results and control-plane calls
\* ------------------------------------------------------------------------
\* [types.TextContent(type="text", text=...)]
Text(parts) == [type |-> "text", text |-> parts, json |-> <<>>]
\* text=json.dumps(value, indent=2, default=str)
Json(value) == [type |-> "json", text |-> <<>>, json |-> value]
\* an exception leaving call_tool
Raised(msg) == [type |-> "raise", text |-> <<L(msg)>>, json |-> <<>>]

NoResult == [type |-> "none", text |-> <<>>, json |-> <<>>]

\* what one invocation produced: its result and the calls it made on the
\* Kubernetes client, in order
Return(result, cs) == [result |-> result, calls |-> cs]

\* a call on v1 / apps_v1 with name and namespace
Call(fn, name, namespace) ==
  [fn |-> fn, name |-> name, namespace |-> namespace, docs |-> <<>>]
\* utils.create_from_yaml(api_client, yaml_objects=docs, namespace=namespace)
CreateCall(docs, namespace) ==
  [fn |-> "create_from_yaml", name |-> PyNone(""), namespace |-> namespace, docs |-> docs]

\* the str() of the exception the Kubernetes client raises when a call fails
ApiException == "ApiException"

\* ------------------------------------------------------------------------
\* Reading a manifest document (dict.get on the decoded value)
\* ------------------------------------------------------------------------
IsMapping(doc) == doc.t \in {"map", "emptymap"}

\* doc.get("metadata", {}).get("name", default), default being the value
\* for a missing key
MetaName(doc, default) ==
  CASE ~IsMapping(doc) -> Raise(default, "object has no attribute 'get'")
    [] doc.metadata.t = "absent" -> Ok(default)
    [] doc.metadata.t = "map" -> Ok(GetDefault(doc.metadata.name, default))
    [] OTHER -> Raise(default, "object has no attribute 'get'")

\* doc.get("kind", default)
KindGet(doc, default) ==
  IF ~IsMapping(doc) THEN Raise(default, "object has no attribute 'get'")
  ELSE Ok(GetDefault(doc.kind, default))

\* ------------------------------------------------------------------------
\* kubectl_apply (main.py:128-152)
\* ------------------------------------------------------------------------
ApplyError(msg, cs) == Return(Text(<<L("Error applying manifest: "), L(msg)>>), cs)

\* main.py:135-152, the try block; fail says whether create_from_yaml raises
ApplyTry(yaml_content, namespace, fail) ==
  LET parsed == safe_load_all(yaml_content)
      docs == parsed.v
      cs == <<CreateCall(docs, namespace)>>
      resource_name == MetaName(docs[1], PyStr("unknown"))
      resource_kind == KindGet(docs[1], PyStr(<<"u","n","k","n","o","w","n">>))
  IN  CASE ~parsed.ok -> ApplyError(parsed.exc, <<>>)
        [] fail -> ApplyError(ApiException, cs)
        [] docs = <<>> -> ApplyError("list index out of range", cs)
        [] ~resource_name.ok -> ApplyError(resource_name.exc, cs)
        [] ~resource_kind.ok -> ApplyError(resource_kind.exc, cs)
        [] OTHER ->
             Return(Text(<<L("Successfully applied "), FmtChars(resource_kind.v),
                           L("/"), FmtStr(resource_name.v)>>), cs)

kubectl_apply(arguments, fail) ==
  LET yaml_content == Get(arguments.yaml_content)
      namespace == Get(arguments.namespace)
  IN  IF ~Truthy(yaml_content, EmptyText)
      THEN Return(Text(<<L("Error: yaml_content is required")>>), <<>>)
      ELSE ApplyTry(yaml_content, namespace, fail)

\* ------------------------------------------------------------------------
\* kubectl_delete (main.py:378-417)
\* ------------------------------------------------------------------------
DeleteError(msg, cs) == Return(Text(<<L("Error deleting resource: "), L(msg)>>), cs)

pod == <<"p","o","d">>
deployment == <<"d","e","p","l","o","y","m","e","n","t">>
service == <<"s","e","r","v","i","c","e">>
node == <<"n","o","d","e">>
namespace == <<"n","a","m","e","s","p","a","c","e">>

\* manifest.get("kind", "").lower() (main.py:396)
DeleteKind(manifest) ==
  LET k == KindGet(manifest, PyStr(<<>>))
  IN  CASE ~k.ok -> Raise(<<>>, k.exc)
        [] k.v.t # "str" -> Raise(<<>>, "object has no attribute 'lower'")
        [] OTHER -> Ok(Lower(k.v.s))

\* a mutant of DeleteNamespace: the manifest's namespace wins over the
\* explicit argument
DeleteNamespaceManifestFirst(ns, manifest) ==
  LET m == GetDefault(manifest.metadata.namespace, PyStr("default"))
  IN  IF Truthy(m, "") THEN m ELSE ns

\* namespace or manifest.get("metadata", {}).get("namespace", "default")
\* (main.py:400); metadata is a mapping here, its name was read at line 392
DeleteNamespace(ns, manifest) ==
  IF Truthy(ns, "") THEN ns
  ELSE GetDefault(manifest.metadata.namespace, PyStr("default"))

\* a mutant of DeleteFn: every kind but pod and deployment is deleted as a
\* service
DeleteFnGeneric(resource_kind) ==
  CASE resource_kind = pod -> "delete_namespaced_pod"
    [] resource_kind = deployment -> "delete_namespaced_deployment"
    [] OTHER -> "delete_namespaced_service"

\* the client method the kind selects (main.py:402-409), "" when none does
DeleteFn(resource_kind) ==
  CASE resource_kind = pod -> "delete_namespaced_pod"
    [] resource_kind = deployment -> "delete_namespaced_deployment"
    [] resource_kind = service -> "delete_namespaced_service"
    [] OTHER -> ""

\* main.py:385-417, the try block; fail says whether the delete call raises
DeleteTry(yaml_content, ns, fail) ==
  LET parsed == safe_load(yaml_content)
      manifest == parsed.v
      resource_name == MetaName(manifest, PyNone(""))
      resource_kind == DeleteKind(manifest)
      resource_namespace == DeleteNamespace(ns, manifest)
      fn == DeleteFn(resource_kind.v)
      cs == <<Call(fn, resource_name.v, resource_namespace)>>
  IN  CASE ~parsed.ok -> DeleteError(parsed.exc, <<>>)
        [] manifest.t \in {"null", "emptymap"} ->
             Return(Text(<<L("Error: Invalid YAML content")>>), <<>>)
        [] ~resource_name.ok -> DeleteError(resource_name.exc, <<>>)
        [] ~Truthy(resource_name.v, "") ->
             Return(Text(<<L("Error: Resource name not found in YAML")>>), <<>>)
        [] ~resource_kind.ok -> DeleteError(resource_kind.exc, <<>>)
        [] resource_kind.v = <<>> ->
             Return(Text(<<L("Error: Resource kind not found in YAML")>>), <<>>)
        [] fn = "" ->
             Return(Text(<<L("Generic deletion not fully implemented for "),
                           T(resource_kind.v)>>), <<>>)
        [] fail -> DeleteError(ApiException, cs)
        [] OTHER ->
             Return(Text(<<L("Successfully deleted "), T(resource_kind.v), L("/"),
                           FmtStr(resource_name.v), L(" from namespace "),
                           FmtStr(resource_namespace)>>), cs)

kubectl_delete(arguments, fail) ==
  LET yaml_content == Get(arguments.yaml_content)
      ns == Get(arguments.namespace)
  IN  IF ~Truthy(yaml_content, EmptyText)
      THEN Return(Text(<<L("Error: yaml_content is required")>>), <<>>)
      ELSE DeleteTry(yaml_content, ns, fail)

\* ------------------------------------------------------------------------
\* Objects the Kubernetes client returns.  An optional field is Nothing
\* (Python None) or Some value.
\* ------------------------------------------------------------------------
Some(x) == [none |-> FALSE, v |-> x]
Nothing(d) == [none |-> TRUE, v |-> d]

\* "x or []": None and the empty list both give the empty list
OrEmpty(opt) == IF opt.none THEN <<>> ELSE opt.v
\* "x or 0"
OrZero(opt) == IF opt.none THEN 0 ELSE opt.v

\* iterating an optional list: None is not iterable
Iterate(opt) ==
  IF opt.none THEN Raise(<<>>, "'NoneType' object is not iterable") ELSE Ok(opt.v)

SeqsUpTo(S, n) == UNION {[1..k -> S] : k \in 0..n}

\* f"{a}/{b}"
Fraction(a, b) == <<a, L("/"), b>>
Num(k) == L(ToString(k))
OptNum(opt) == IF opt.none THEN L("None") ELSE Num(opt.v)

\* the resource_type aliases of each kind (main.py:166, 189, 210, 233, 256)
PodAliases == {pod, pod \o <<"s">>}
DeploymentAliases == {deployment, deployment \o <<"s">>}
ServiceAliases == {service, service \o <<"s">>, <<"s","v","c">>}
NodeAliases == {node, node \o <<"s">>}
NamespaceAliases == {namespace, namespace \o <<"s">>, <<"n","s">>}

\* the kind a lower-cased resource_type selects in kubectl_get, "" for none
GetKind(resource_type) ==
  CASE resource_type \in PodAliases -> "pod"
    [] resource_type \in DeploymentAliases -> "deployment"
    [] resource_type \in ServiceAliases -> "service"
    [] resource_type \in NodeAliases -> "node"
    [] resource_type \in NamespaceAliases -> "namespace"
    [] OTHER -> ""

\* the same in kubectl_describe (main.py:296, 323, 339, 353): no namespace
DescribeKind(resource_type) ==
  CASE resource_type \in PodAliases -> "pod"
    [] resource_type \in DeploymentAliases -> "deployment"
    [] resource_type \in ServiceAliases -> "service"
    [] resource_type \in NodeAliases -> "node"
    [] OTHER -> ""

\* ------------------------------------------------------------------------
\* kubectl_get: the summary record of each kind
\* ------------------------------------------------------------------------
\* sum(1 for c in statuses if c.ready)
IsReady(c) == c.ready
ReadyCount(statuses) == Len(SelectSeq(statuses, IsReady))

\* sum(c.restart_count for c in statuses)
RestartCount(statuses) ==
  LET acc[i \in 0..Len(statuses)] ==
        IF i = 0 THEN 0 ELSE acc[i - 1] + statuses[i].restart_count
  IN  acc[Len(statuses)]

\* main.py:169-176 and 180-187
PodSummary(p, ns) ==
  Ok([name |-> p.name,
      namespace |-> ns,
      status |-> p.phase,
      ready |-> Fraction(Num(ReadyCount(OrEmpty(p.container_statuses))),
                         Num(Len(OrEmpty(p.container_statuses)))),
      restarts |-> RestartCount(OrEmpty(p.container_statuses)),
      node |-> p.node_name])

\* main.py:192-198 and 202-208
DeploymentSummary(dep, ns) ==
  Ok([name |-> dep.name,
      namespace |-> ns,
      ready |-> Fraction(Num(OrZero(dep.ready_replicas)), OptNum(dep.replicas)),
      up_to_date |-> OrZero(dep.updated_replicas),
      available |-> OrZero(dep.available_replicas)])

\* [f"{p.port}/{p.protocol}" for p in ports]
PortTexts(ports) ==
  [i \in 1..Len(ports) |-> Fraction(Num(ports[i].port), L(ports[i].protocol))]

\* svc.spec.external_i_ps or "none"
ExternalIp(ips) ==
  IF OrEmpty(ips) = <<>> THEN [t |-> "str", s |-> "none", items |-> <<>>]
  ELSE [t |-> "list", s |-> "", items |-> ips.v]

\* main.py:213-220 and 224-231
ServiceSummary(svc, ns) ==
  Ok([name |-> svc.name,
      namespace |-> ns,
      type |-> svc.type,
      cluster_ip |-> svc.cluster_ip,
      external_ip |-> ExternalIp(svc.external_ips),
      ports |-> PortTexts(OrEmpty(svc.ports))])

\* {c.type: c.status for c in conditions}.get("Ready") == "True": the last
\* entry of a type is the one the dict keeps
IsReadyCondition(c) == c.type = "Ready"
NodeStatus(conditions) ==
  LET ready == SelectSeq(conditions, IsReadyCondition)
  IN  IF ready # <<>> /\ ready[Len(ready)].status = "True" THEN "Ready" ELSE "NotReady"

\* a label key is the sequence of its "/"-separated segments;
\* "node-role.kubernetes.io" in label
IsRoleLabel(label) == \E i \in 1..Len(label) : label[i] = "node-role.kubernetes.io"

\* [label.split("/")[1] for label in labels if ...] or ["<none>"]
NodeRoles(labels) ==
  LET role == SelectSeq(labels, IsRoleLabel)
  IN  CASE role = <<>> -> Ok(<<"<none>">>)
        [] \E i \in 1..Len(role) : Len(role[i]) < 2 ->
             Raise(<<>>, "list index out of range")
        [] OTHER -> Ok([i \in 1..Len(role) |-> role[i][2]])

\* next((addr.address for addr in addresses if addr.type == "InternalIP"), "")
IsInternalIP(addr) == addr.type = "InternalIP"
InternalIp(addresses) ==
  LET internal == SelectSeq(addresses, IsInternalIP)
  IN  IF internal = <<>> THEN "" ELSE internal[1].address

\* main.py:236-243 and 247-254
NodeSummary(n, ns) ==
  LET conditions == Iterate(n.conditions)
      labels == IF n.labels.none
                THEN Raise(<<>>, "'NoneType' object has no attribute 'keys'")
                ELSE Ok(n.labels.v)
      roles == NodeRoles(labels.v)
      addresses == Iterate(n.addresses)
      none == [name |-> "", status |-> "", roles |-> <<>>, version |-> "",
               internal_ip |-> ""]
  IN  CASE ~conditions.ok -> Raise(none, conditions.exc)
        [] ~labels.ok -> Raise(none, labels.exc)
        [] ~roles.ok -> Raise(none, roles.exc)
        [] ~addresses.ok -> Raise(none, addresses.exc)
        [] OTHER ->
             Ok([name |-> n.name,
                 status |-> NodeStatus(conditions.v),
                 roles |-> roles.v,
                 version |-> n.kubelet_version,
                 internal_ip |-> InternalIp(addresses.v)])

\* main.py:259-263 and 267-271
NamespaceSummary(n, ns) ==
  Ok([name |-> n.name, status |-> n.phase, age |-> n.creation_timestamp])

\* the summary of one fetched object of the kind
Summary(kind, obj, ns) ==
  CASE kind = "pod" -> PodSummary(obj, ns)
    [] kind = "deployment" -> DeploymentSummary(obj, ns)
    [] kind = "service" -> ServiceSummary(obj, ns)
    [] kind = "node" -> NodeSummary(obj, ns)
    [] OTHER -> NamespaceSummary(obj, ns)

\* ------------------------------------------------------------------------
\* kubectl_get (main.py:154-279)
\* ------------------------------------------------------------------------
\* a mutant of GetError: the failed call is issued once more before the
\* error is returned
GetErrorRetry(msg, cs) ==
  Return(Text(<<L("Error getting resource: "), L(msg)>>), cs \o cs)

GetError(msg, cs) == Return(Text(<<L("Error getting resource: "), L(msg)>>), cs)

ClusterScoped(kind) == kind \in {"node", "namespace"}

\* the client method that reads one object of the kind
ReadFn(kind) ==
  CASE kind = "pod" -> "read_namespaced_pod"
    [] kind = "deployment" -> "read_namespaced_deployment"
    [] kind = "service" -> "read_namespaced_service"
    [] kind = "node" -> "read_node"
    [] OTHER -> "read_namespace"

\* the client method that lists the objects of the kind
ListFn(kind) ==
  CASE kind = "pod" -> "list_namespaced_pod"
    [] kind = "deployment" -> "list_namespaced_deployment"
    [] kind = "service" -> "list_namespaced_service"
    [] kind = "node" -> "list_node"
    [] OTHER -> "list_namespace"

\* the read call: cluster-scoped kinds are read by name alone
ReadCall(kind, name, ns) ==
  Call(ReadFn(kind), name, IF ClusterScoped(kind) THEN PyAbsent("") ELSE ns)

ListCall(kind, ns) ==
  Call(ListFn(kind), PyAbsent(""), IF ClusterScoped(kind) THEN PyAbsent("") ELSE ns)

\* result.append(summary) for every item, in order; the first exception
\* ends the loop
Summaries(kind, items, ns) ==
  LET each == [i \in 1..Len(items) |-> Summary(kind, items[i], ns)]
      bad == {i \in 1..Len(items) : ~each[i].ok}
  IN  IF bad = {} THEN Ok([i \in 1..Len(items) |-> each[i].v])
      ELSE Raise(<<>>, each[CHOOSE i \in bad : \A j \in bad : i <= j].exc)

\* main.py:163-279, the try block; reply is what the client call does
GetTry(resource_type, ns, name, reply) ==
  LET kind == GetKind(resource_type)
      cs == IF Truthy(name, "") THEN <<ReadCall(kind, name, ns)>>
            ELSE <<ListCall(kind, ns)>>
      result == Summaries(kind, reply.items, ns)
  IN  CASE kind = "" ->
             Return(Text(<<L("Unsupported resource type: "), T(resource_type)>>), <<>>)
        [] reply.fail -> GetError(ApiException, cs)
        [] ~result.ok -> GetError(result.exc, cs)
        [] OTHER -> Return(Json(result.v), cs)

kubectl_get(arguments, reply) ==
  LET resource_type == Get(arguments.resource_type)
      ns == GetDefault(arguments.namespace, PyStr("default"))
      name == Get(arguments.name)
  IN  CASE ~Truthy(resource_type, <<>>) ->
             Return(Text(<<L("Error: resource_type is required")>>), <<>>)
        [] resource_type.t # "str" ->
             Return(Raised("'int' object has no attribute 'lower'"), <<>>)
        [] OTHER -> GetTry(Lower(resource_type.s), ns, name, reply)

\* ------------------------------------------------------------------------
\* kubectl_describe (main.py:281-376)
\* ------------------------------------------------------------------------
DescribeError(msg, cs) ==
  Return(Text(<<L("Error describing resource: "), L(msg)>>), cs)

\* [{"type": c.type, "status": c.status, "reason": c.reason} for c in ...]
ConditionDetails(conditions) ==
  [i \in 1..Len(conditions) |->
     [type |-> conditions[i].type, status |-> conditions[i].status,
      reason |-> conditions[i].reason]]

\* zip(pod.spec.containers, statuses or [None] * len(pod.spec.containers))
\* and the record of each pair (main.py:306-318)
ContainerDetails(containers, statuses) ==
  LET cs == IF OrEmpty(statuses) = <<>>
            THEN [i \in 1..Len(containers) |-> Nothing([ready |-> FALSE,
                                                        restart_count |-> 0,
                                                        state |-> "unknown"])]
            ELSE [i \in 1..Len(statuses.v) |-> Some(statuses.v[i])]
      n == IF Len(cs) < Len(containers) THEN Len(cs) ELSE Len(containers)
  IN  [i \in 1..n |->
         [name |-> containers[i].name,
          image |-> containers[i].image,
          ready |-> IF cs[i].none THEN FALSE ELSE cs[i].v.ready,
          restart_count |-> IF cs[i].none THEN 0 ELSE cs[i].v.restart_count,
          state |-> IF cs[i].none THEN "unknown" ELSE cs[i].v.state]]

\* main.py:297-321
PodDetail(p) ==
  [name |-> p.name,
   namespace |-> p.namespace,
   labels |-> p.labels,
   annotations |-> p.annotations,
   status |-> p.phase,
   ip |-> p.pod_ip,
   node |-> p.node_name,
   containers |-> ContainerDetails(p.containers, p.container_statuses),
   conditions |-> ConditionDetails(OrEmpty(p.conditions)),
   events |-> "Use kubectl get events for pod events"]

\* main.py:324-337
DeploymentDetail(dep) ==
  [name |-> dep.name,
   namespace |-> dep.namespace,
   labels |-> dep.labels,
   annotations |-> dep.annotations,
   replicas |-> dep.replicas,
   ready_replicas |-> OrZero(dep.ready_replicas),
   available_replicas |-> OrZero(dep.available_replicas),
   updated_replicas |-> OrZero(dep.updated_replicas),
   selector |-> dep.match_labels,
   strategy |-> dep.strategy,
   conditions |-> ConditionDetails(OrEmpty(dep.conditions))]

PortDetails(ports) ==
  [i \in 1..Len(ports) |->
     [port |-> ports[i].port, protocol |-> ports[i].protocol,
      target_port |-> ports[i].target_port]]

\* main.py:340-351
ServiceDetail(svc) ==
  [name |-> svc.name,
   namespace |-> svc.namespace,
   labels |-> svc.labels,
   annotations |-> svc.annotations,
   type |-> svc.type,
   cluster_ip |-> svc.cluster_ip,
   external_ips |-> svc.external_ips,
   ports |-> PortDetails(OrEmpty(svc.ports)),
   selector |-> svc.selector]

\* main.py:354-368
NodeDetail(n) ==
  [name |-> n.name,
   labels |-> n.labels,
   annotations |-> n.annotations,
   capacity |-> n.capacity,
   allocatable |-> n.allocatable,
   conditions |-> ConditionDetails(OrEmpty(n.conditions)),
   addresses |-> OrEmpty(n.addresses),
   node_info |-> [kubelet_version |-> n.kubelet_version,
                  os_image |-> n.os_image,
                  container_runtime |-> n.container_runtime_version]]

Detail(kind, obj) ==
  CASE kind = "pod" -> PodDetail(obj)
    [] kind = "deployment" -> DeploymentDetail(obj)
    [] kind = "service" -> ServiceDetail(obj)
    [] OTHER -> NodeDetail(obj)

\* main.py:293-376, the try block
DescribeTry(resource_type, name_arg, ns, reply) ==
  LET kind == DescribeKind(resource_type)
      cs == <<ReadCall(kind, name_arg, ns)>>
  IN  CASE kind = "" ->
             Return(Text(<<L("Unsupported resource type: "), T(resource_type)>>), <<>>)
        [] reply.fail -> DescribeError(ApiException, cs)
        [] OTHER -> Return(Json(Detail(kind, reply.items[1])), cs)

kubectl_describe(arguments, reply) ==
  LET resource_type == Get(arguments.resource_type)
      name_arg == Get(arguments.name)
      ns == GetDefault(arguments.namespace, PyStr("default"))
  IN  CASE ~Truthy(resource_type, <<>>) ->
             Return(Text(<<L("Error: resource_type is required")>>), <<>>)
        [] ~Truthy(name_arg, "") ->
             Return(Text(<<L("Error: name is required")>>), <<>>)
        [] resource_type.t # "str" ->
             Return(Raised("'int' object has no attribute 'lower'"), <<>>)
        [] OTHER -> DescribeTry(Lower(resource_type.s), name_arg, ns, reply)

\* main.py:419
UnknownTool == Return(Raised("Unknown tool"), <<>>)

\* call_tool (main.py:127-419); reply is what the Kubernetes client does
\* with the call the invocation makes, if it makes one
call_tool(name, arguments, reply) ==
  CASE name = "kubectl_apply" -> kubectl_apply(arguments, reply.fail)
    [] name = "kubectl_get" -> kubectl_get(arguments, reply)
    [] name = "kubectl_describe" -> kubectl_describe(arguments, reply)
    [] name = "kubectl_delete" -> kubectl_delete(arguments, reply.fail)
    [] OTHER -> UnknownTool

\* ------------------------------------------------------------------------
\* The inputs: argument bags, manifest texts and objects of the cluster
\* ------------------------------------------------------------------------
ConfigMap == <<"C","o","n","f","i","g","M","a","p">>

\* the values of a manifest's kind key
KindValues ==
  {NoKind, PyNone(<<>>), PyInt(5, <<>>), PyStr(<<>>)}
    \cup {PyStr(k) : k \in {pod, Capitalize(pod), Upper(pod), Capitalize(deployment),
                            Capitalize(service), Capitalize(node),
                            Capitalize(namespace), ConfigMap}}

NameValues == {NoName, PyNone(""), PyStr(""), PyStr("web")}
ManifestNamespaceValues == {NoName, PyNone(""), PyStr(""), PyStr("stage")}

MetadataValues ==
  {NoMeta, MetaNone, MetaScalar}
    \cup {MetaMap(n, ns) : n \in NameValues, ns \in ManifestNamespaceValues}

\* the first document of a manifest text
FirstDocs ==
  {NullDoc, ScalarDoc, EmptyMapDoc}
    \cup {MapDoc(k, m) : k \in KindValues, m \in MetadataValues}

\* the documents after the first
LaterDocs ==
  {NullDoc, MapDoc(PyStr(Capitalize(service)), MetaMap(PyStr("db"), NoName))}

ManifestTexts ==
  {CommentText, BadText}
    \cup {DocsText(<<d>> \o rest) : d \in FirstDocs,
                                     rest \in SeqsUpTo(LaterDocs, MaxDocs - 1)}

YamlContentValues ==
  {PyAbsent(EmptyText), PyNone(EmptyText), PyInt(0, EmptyText), PyInt(7, EmptyText),
   PyStr(EmptyText)}
    \cup {PyStr(t) : t \in ManifestTexts}

NamespaceArgValues == {NoName, PyNone(""), PyStr(""), PyStr("prod")}

\* resource_type tokens: every alias in three letter cases, every token of
\* at most MaxTokenLen characters of TokenAlphabet, and some longer tokens
\* that match nothing
TokenAlphabet == {"n", "s", "N", "X"}
Foo == <<"F","o","o">>
Aliases ==
  PodAliases \cup DeploymentAliases \cup ServiceAliases \cup NodeAliases
    \cup NamespaceAliases
Tokens ==
  UNION {{a, Capitalize(a), Upper(a)} : a \in Aliases}
    \cup (SeqsUpTo(TokenAlphabet, MaxTokenLen) \ {<<>>})
    \cup {Foo, Lower(Foo), pod \o <<" ">>, ConfigMap}

ResourceTypeValues ==
  {NoKind, PyNone(<<>>), PyInt(0, <<>>), PyInt(7, <<>>), PyStr(<<>>)}
    \cup {PyStr(t) : t \in Tokens}

NameArgValues == {NoName, PyStr(""), PyStr("web")}
GetNamespaceValues == {NoName, PyStr("prod")}

Arguments(yaml_content, resource_type, name, ns) ==
  [yaml_content |-> yaml_content, resource_type |-> resource_type,
   name |-> name, namespace |-> ns]

NoArguments == Arguments(PyAbsent(EmptyText), NoKind, NoName, NoName)

\* container statuses of a pod
ContainerStatuses ==
  {[ready |-> TRUE, restart_count |-> 0, state |-> "running"],
   [ready |-> FALSE, restart_count |-> 2, state |-> "waiting"]}

NoList == Nothing(<<>>)
NoInt == Nothing(0)

Pods ==
  {[name |-> "web", namespace |-> "prod", labels |-> Some(<<<<"app">>>>),
    annotations |-> NoList, phase |-> "Running", pod_ip |-> "10.1.0.5",
    node_name |-> "n1",
    containers |-> <<[name |-> "app", image |-> "nginx"],
                     [name |-> "sidecar", image |-> "envoy"]>>,
    container_statuses |-> cs,
    conditions |-> Some(<<[type |-> "Ready", status |-> "True", reason |-> ""]>>)] :
     cs \in {NoList} \cup {Some(x) : x \in SeqsUpTo(ContainerStatuses, MaxContainers)}}

Deployments ==
  {[name |-> "api", namespace |-> "prod", labels |-> NoList, annotations |-> NoList,
    replicas |-> Some(2), ready_replicas |-> r, updated_replicas |-> u,
    available_replicas |-> a, match_labels |-> Some(<<<<"app">>>>),
    strategy |-> "RollingUpdate", conditions |-> NoList] :
     r \in {NoInt, Some(1)}, u \in {NoInt, Some(2)}, a \in {NoInt, Some(1)}}

Services ==
  {[name |-> "db", namespace |-> "prod", labels |-> NoList, annotations |-> NoList,
    type |-> "ClusterIP", cluster_ip |-> "10.0.0.9", external_ips |-> e,
    ports |-> ps, selector |-> NoList] :
     e \in {NoList, Some(<<>>), Some(<<"1.2.3.4">>)},
     ps \in {NoList, Some(<<[port |-> 80, protocol |-> "TCP", target_port |-> "8080"]>>)}}

Nodes ==
  {[name |-> "n1", labels |-> l, annotations |-> NoList, capacity |-> NoList,
    allocatable |-> NoList, conditions |-> c, addresses |-> a,
    kubelet_version |-> "v1.29.0", os_image |-> "linux",
    container_runtime_version |-> "containerd"] :
     l \in {NoList, Some(<<<<"kubernetes.io", "hostname">>>>),
            Some(<<<<"kubernetes.io", "hostname">>,
                   <<"node-role.kubernetes.io", "master">>>>)},
     c \in {NoList,
            Some(<<[type |-> "Ready", status |-> "True", reason |-> "KubeletReady"]>>),
            Some(<<[type |-> "MemoryPressure", status |-> "True", reason |-> ""]>>)},
     a \in {NoList,
            Some(<<[type |-> "Hostname", address |-> "n1"],
                   [type |-> "InternalIP", address |-> "10.0.0.1"]>>)}}

Namespaces ==
  {[name |-> n, phase |-> "Active", creation_timestamp |-> "2024-01-01 00:00:00+00:00"] :
     n \in {"default", "demo"}}

\* the objects of a kind the cluster may hold
Objects(kind) ==
  CASE kind = "pod" -> Pods
    [] kind = "deployment" -> Deployments
    [] kind = "service" -> Services
    [] kind = "node" -> Nodes
    [] OTHER -> Namespaces

\* what the Kubernetes client does with a call: it raises, or it returns
\* the objects in items (one object for a read, the list for a list call)
Failure == [fail |-> TRUE, items |-> <<>>]
Success(items) == [fail |-> FALSE, items |-> items]
NoReply == Success(<<>>)

ReadReplies(kind) == {Failure} \cup {Success(<<o>>) : o \in Objects(kind)}
ListReplies(kind) ==
  {Failure} \cup {Success(items) : items \in SeqsUpTo(Objects(kind), MaxItems)}

\* the replies to the call kubectl_get makes for these arguments
GetReplies(arguments) ==
  LET resource_type == arguments.resource_type
      kind == GetKind(Lower(resource_type.s))
  IN  CASE resource_type.t # "str" \/ kind = "" -> {NoReply}
        [] Truthy(Get(arguments.name), "") -> ReadReplies(kind)
        [] OTHER -> ListReplies(kind)

\* the replies to the call kubectl_describe makes for these arguments
DescribeReplies(arguments) ==
  LET resource_type == arguments.resource_type
      kind == DescribeKind(Lower(resource_type.s))
  IN  IF resource_type.t # "str" \/ kind = "" \/ ~Truthy(Get(arguments.name), "")
      THEN {NoReply}
      ELSE ReadReplies(kind)

\* ------------------------------------------------------------------------
\* The state machine: one action per operation, each a whole invocation of
\* call_tool, and Respond, which hands the result to the transport.  The
\* server runs one invocation at a time and keeps nothing of it once the
\* result is sent; the variables record the invocation in progress.
\* ------------------------------------------------------------------------
VARIABLES
  tool,        \* the operation name of the invocation, "" when idle
  arguments,   \* its argument bag
  reply,       \* what the Kubernetes client did with its call
  result,      \* what call_tool returned or raised
  calls        \* the calls it made on the Kubernetes client

vars == <<tool, arguments, reply, result, calls>>

Init ==
  /\ tool = ""
  /\ arguments = NoArguments
  /\ reply = NoReply
  /\ result = NoResult
  /\ calls = <<>>

Invoke(name, args, r) ==
  LET out == call_tool(name, args, r)
  IN  /\ tool' = name
      /\ arguments' = args
      /\ reply' = r
      /\ result' = out.result
      /\ calls' = out.calls

Apply ==
  /\ tool = ""
  /\ \E y \in YamlContentValues, ns \in NamespaceArgValues, f \in {Failure, NoReply} :
       Invoke("kubectl_apply", Arguments(y, NoKind, NoName, ns), f)

GetResources ==
  /\ tool = ""
  /\ \E rt \in ResourceTypeValues, n \in NameArgValues, ns \in GetNamespaceValues :
       LET args == Arguments(PyAbsent(EmptyText), rt, n, ns)
       IN  \E r \in GetReplies(args) : Invoke("kubectl_get", args, r)

Describe ==
  /\ tool = ""
  /\ \E rt \in ResourceTypeValues, n \in NameArgValues, ns \in GetNamespaceValues :
       LET args == Arguments(PyAbsent(EmptyText), rt, n, ns)
       IN  \E r \in DescribeReplies(args) : Invoke("kubectl_describe", args, r)

Delete ==
  /\ tool = ""
  /\ \E y \in YamlContentValues, ns \in NamespaceArgValues, f \in {Failure, NoReply} :
       Invoke("kubectl_delete", Arguments(y, NoKind, NoName, ns), f)

Unknown ==
  /\ tool = ""
  /\ \E name \in {"kubectl_patch", "kubectl_logs"},
        y \in {PyAbsent(EmptyText), PyStr(CommentText)},
        rt \in {NoKind, PyStr(pod)} :
       Invoke(name, Arguments(y, rt, NoName, NoName), NoReply)

\* the result goes back to the caller; nothing of the invocation is kept
Respond ==
  /\ tool # ""
  /\ tool' = ""
  /\ arguments' = NoArguments
  /\ reply' = NoReply
  /\ result' = NoResult
  /\ calls' = <<>>

Next == Apply \/ GetResources \/ Describe \/ Delete \/ Unknown \/ Respond

Spec == Init /\ [][Next]_vars

\* ------------------------------------------------------------------------
\* Properties
\* ------------------------------------------------------------------------
Operations == {"kubectl_apply", "kubectl_get", "kubectl_describe", "kubectl_delete"}

\* an argument that is absent or empty: the key is missing, or it is None
\* or the empty string
Missing(v, empty) == v.t \in {"absent", "none"} \/ (v.t = "str" /\ v.s = empty)

ValidationErrors ==
  {Text(<<L("Error: yaml_content is required")>>),
   Text(<<L("Error: resource_type is required")>>),
   Text(<<L("Error: name is required")>>)}

\* the required arguments of the invocation in progress, one of which is
\* absent or empty
RequiredMissing ==
  \/ /\ tool \in {"kubectl_apply", "kubectl_delete"}
     /\ Missing(arguments.yaml_content, EmptyText)
  \/ /\ tool \in {"kubectl_get", "kubectl_describe"}
     /\ Missing(arguments.resource_type, <<>>)
  \/ /\ tool = "kubectl_describe"
     /\ Missing(arguments.name, "")

\* C1: in each of the four operations, when a required argument
\* (yaml_content for apply and delete, resource_type for get, resource_type
\* and name for describe) is absent or empty, call_tool returns a validation
\* error text and makes no control-plane call.
C1_MissingArgumentRejected ==
  RequiredMissing => result \in ValidationErrors /\ calls = <<>>

\* describe of a pod without a name was rejected
C1_Witness ==
  /\ tool = "kubectl_describe"
  /\ arguments.resource_type = PyStr(pod)
  /\ arguments.name = NoName
  /\ result = Text(<<L("Error: name is required")>>)
  /\ calls = <<>>

\* C2: an invocation of one of the four known operations returns a text
\* result and never raises, whatever the argument bag holds (non-string
\* values of resource_type or yaml_content included) and whatever fails.
C2_KnownOperationNeverRaises ==
  tool \in Operations => result.type # "raise"

\* the token of an invocation of get or describe that reaches the kind
\* dispatch with a string resource_type
ReachesDispatch ==
  /\ tool \in {"kubectl_get", "kubectl_describe"}
  /\ arguments.resource_type.t = "str"
  /\ arguments.resource_type.s # <<>>
  /\ tool = "kubectl_describe" => ~Missing(arguments.name, "")

\* the token matches no alias of a kind the operation supports, in any
\* letter case
Unmatched(token) ==
  IF tool = "kubectl_get" THEN GetKind(Lower(token)) = ""
  ELSE DescribeKind(Lower(token)) = ""

\* C3: in get and describe, a resource_type token that matches no alias of
\* a supported kind yields exactly "Unsupported resource type: <token>",
\* the token as the caller supplied it, letter case included.
C3_UnsupportedTokenVerbatim ==
  (ReachesDispatch /\ Unmatched(arguments.resource_type.s)) =>
    result = Text(<<L("Unsupported resource type: "), T(arguments.resource_type.s)>>)

\* the manifest of a delete is a single mapping document with a non-empty
\* name and a string kind
SingleManifest ==
  /\ tool = "kubectl_delete"
  /\ arguments.yaml_content.t = "str"
  /\ arguments.yaml_content.s.wellformed
  /\ Len(arguments.yaml_content.s.docs) = 1
  /\ arguments.yaml_content.s.docs[1].t = "map"
  /\ arguments.yaml_content.s.docs[1].kind.t = "str"
  /\ arguments.yaml_content.s.docs[1].metadata.t = "map"
  /\ arguments.yaml_content.s.docs[1].metadata.name.t = "str"
  /\ arguments.yaml_content.s.docs[1].metadata.name.s # ""

ManifestKind == arguments.yaml_content.s.docs[1].kind.s

\* C4: delete of a manifest whose kind is Node or Namespace, with a
\* non-empty metadata.name, returns "Generic deletion not fully implemented
\* for <kind>" (the kind in lower case) and makes no control-plane call.
C4_NodeNamespaceNotDeleted ==
  (SingleManifest /\ Lower(ManifestKind) \in {node, namespace}) =>
    /\ result = Text(<<L("Generic deletion not fully implemented for "),
                       T(Lower(ManifestKind))>>)
    /\ calls = <<>>

\* a Node manifest named web was refused
C4_Witness ==
  /\ SingleManifest
  /\ ManifestKind = Capitalize(node)
  /\ result = Text(<<L("Generic deletion not fully implemented for "), T(node)>>)
  /\ calls = <<>>

\* the manifest text of an apply or delete decodes, to these documents
Decodes ==
  /\ arguments.yaml_content.t = "str"
  /\ arguments.yaml_content.s.nonempty
  /\ arguments.yaml_content.s.wellformed

Documents == arguments.yaml_content.s.docs

\* "Successfully applied <Kind>/<name>" of a document: its kind and name as
\* written, "unknown" for a key it lacks
AppliedText(doc) ==
  Text(<<L("Successfully applied "),
         FmtChars(GetDefault(doc.kind, PyStr(<<"u","n","k","n","o","w","n">>))),
         L("/"),
         FmtStr(IF doc.metadata.t = "map"
                THEN GetDefault(doc.metadata.name, PyStr("unknown"))
                ELSE PyStr("unknown"))>>)

\* C5: apply of a manifest of two or more documents submits all of them in
\* one batch call, with the namespace argument, and whenever that call
\* succeeds the result is "Successfully applied <Kind>/<name>" of the first
\* document.
C5_BatchReportsFirstDocument ==
  (tool = "kubectl_apply" /\ Decodes /\ Len(Documents) >= 2) =>
    /\ calls = <<CreateCall(Documents, Get(arguments.namespace))>>
    /\ ~reply.fail => result = AppliedText(Documents[1])

\* C6: apply of a manifest text that decodes to no document, or does not
\* decode, makes no control-plane call.
C6_EmptyManifestNotSubmitted ==
  (/\ tool = "kubectl_apply"
   /\ arguments.yaml_content.t = "str"
   /\ arguments.yaml_content.s.nonempty
   /\ (~arguments.yaml_content.s.wellformed \/ Documents = <<>>)) =>
    calls = <<>>

\* a get that resolved a supported kind and whose control-plane call
\* succeeded
GetSucceeded ==
  /\ tool = "kubectl_get"
  /\ calls # <<>>
  /\ ~reply.fail

\* C7: a get on a supported kind whose control-plane call succeeds returns
\* a JSON array with one summary record per object returned: as many as
\* the objects in scope without name, exactly one with name.
C7_OneRecordPerObject ==
  GetSucceeded =>
    /\ result.type = "json"
    /\ Len(result.json) = Len(reply.items)
    /\ ~Missing(arguments.name, "") => Len(result.json) = 1
    /\ \A i \in 1..Len(result.json) : result.json[i].name = reply.items[i].name

\* the namespace a delete is to use: the explicit argument if given, else
\* the manifest's metadata.namespace if present, else "default"
ExpectedNamespace ==
  CASE ~Missing(arguments.namespace, "") -> arguments.namespace
    [] Documents[1].metadata.namespace.t # "absent" -> Documents[1].metadata.namespace
    [] OTHER -> PyStr("default")

\* C8: a delete of a Pod, Deployment or Service passes to the control-plane
\* delete call the explicit namespace argument if given, else the
\* manifest's metadata.namespace if present, else "default", and a success
\* text is "Successfully deleted <kind>/<name> from namespace <ns>" with
\* that namespace.
C8_DeleteNamespacePrecedence ==
  (SingleManifest /\ Lower(ManifestKind) \in {pod, deployment, service}) =>
    /\ Len(calls) = 1
    /\ calls[1].namespace = ExpectedNamespace
    /\ calls[1].name = Documents[1].metadata.name
    /\ ~reply.fail =>
         result = Text(<<L("Successfully deleted "), T(Lower(ManifestKind)), L("/"),
                         L(Documents[1].metadata.name.s), L(" from namespace "),
                         FmtStr(ExpectedNamespace)>>)

\* a pod was deleted from the namespace its manifest names, no namespace
\* argument being given
C8_Witness ==
  /\ SingleManifest
  /\ ManifestKind = Capitalize(pod)
  /\ arguments.namespace = NoName
  /\ calls = <<Call("delete_namespaced_pod", PyStr("web"), PyStr("stage"))>>
  /\ result = Text(<<L("Successfully deleted "), T(pod), L("/"), L("web"),
                     L(" from namespace "), L("stage")>>)

\* the first document of a manifest is usable by delete: a mapping with a
\* non-empty name whose kind is Pod, Deployment or Service
FirstUsable ==
  /\ Documents[1].t = "map"
  /\ Documents[1].kind.t = "str"
  /\ Lower(Documents[1].kind.s) \in {pod, deployment, service}
  /\ Documents[1].metadata.t = "map"
  /\ Documents[1].metadata.name.t = "str"
  /\ Documents[1].metadata.name.s # ""

\* C9: a delete given a manifest text of more than one document uses the
\* first document only: when that document is usable the delete call is
\* made for its kind and name, and it succeeds when the call does.
C9_DeleteUsesFirstDocument ==
  (tool = "kubectl_delete" /\ Decodes /\ Len(Documents) > 1 /\ FirstUsable) =>
    /\ Len(calls) = 1
    /\ calls[1].name = Documents[1].metadata.name
    /\ ~reply.fail =>
         (result.type = "text" /\ result.text[1] = L("Successfully deleted "))

\* the kind a get resolved
ResolvedKind == GetKind(Lower(arguments.resource_type.s))

\* the defaults of the optional fields of the i-th object in its record
DefaultsApplied(i) ==
  LET obj == reply.items[i]
      rec == result.json[i]
  IN  CASE ResolvedKind = "pod" ->
             OrEmpty(obj.container_statuses) = <<>> =>
               (rec.ready = Fraction(L("0"), L("0")) /\ rec.restarts = 0)
        [] ResolvedKind = "deployment" ->
             obj.ready_replicas.none => rec.ready[1] = L("0")
        [] ResolvedKind = "node" ->
             /\ OrEmpty(obj.labels) = <<>> => rec.roles = <<"<none>">>
             /\ OrEmpty(obj.conditions) = <<>> => rec.status = "NotReady"
             /\ OrEmpty(obj.addresses) = <<>> => rec.internal_ip = ""
        [] OTHER -> TRUE

\* C10: in a get on a supported kind, normalization never fails because an
\* optional field is absent: the result is the summary records, with ready
\* "0/0" and restarts 0 for a pod without container statuses, ready 0 for
\* a deployment without ready replicas, roles ["<none>"] for a node
\* without labels, "NotReady" for a node without conditions and internal_ip
\* "" for a node without addresses.
C10_AbsentFieldsDefaulted ==
  GetSucceeded =>
    /\ result.type = "json"
    /\ \A i \in 1..Len(reply.items) : DefaultsApplied(i)

\* the prefix of the error text of each operation (main.py:152, 279, 376,
\* 417)
ErrorPrefix ==
  CASE tool = "kubectl_apply" -> "Error applying manifest: "
    [] tool = "kubectl_get" -> "Error getting resource: "
    [] tool = "kubectl_describe" -> "Error describing resource: "
    [] OTHER -> "Error deleting resource: "

\* C11: in any sequence of invocations, an invocation of apply, get,
\* describe or delete makes at most one control-plane call; when that call
\* fails no other call follows it and the invocation ends with the
\* operation's error text naming the failure; and once the result is
\* returned nothing of the invocation is left for the next one.
C11_OneCallNoRetryNoState ==
  /\ tool \in Operations =>
       /\ Len(calls) <= 1
       /\ (calls # <<>> /\ reply.fail) =>
            result = Text(<<L(ErrorPrefix), L(ApiException)>>)
  /\ tool = "" =>
       (calls = <<>> /\ result = NoResult /\ arguments = NoArguments
          /\ reply = NoReply)

\* the delete call of a pod failed: one call, and the error text
C11_Witness ==
  /\ tool = "kubectl_delete"
  /\ reply.fail
  /\ calls = <<Call("delete_namespaced_pod", PyStr("web"), PyStr("default"))>>
  /\ result = Text(<<L("Error deleting resource: "), L(ApiException)>>)
====
